---- MODULE Spec2Model ----
(***************************************************************************)
(* A model of the LRU cache of src/src/enhanced_lru_cache.py: a dict from  *)
(* key to Node plus a doubly linked chain of Nodes between two sentinels.  *)
(* Nodes live in a heap (a function from node identity to the node's       *)
(* fields); prev/next hold node identities, None is the null reference.    *)
(***************************************************************************)
EXTENDS Integers, Sequences, FiniteSets, TLC

\* ---------------------------------------------------------------- bounds
MaxKey == 4
MaxVal == 0
MaxCap == 3
MaxOps == 5

Keys == 1..MaxKey
Values == -1..MaxVal
Capacities == -1..MaxCap

\* ------------------------------------------------------------- constants
None == 0
head == 1
tail == 2
NotFound == -1

VARIABLES status, capacity, cache, nodes, ret, exc, last, now, touch, lastSet, evicted, victim, hit

\* the two interleaved callers, the sort_012 call and the rearrange_digits call
VARIABLES th, srt, rd

\* the telemarketer detector, the file search and the square root call
VARIABLES tm, fs, sq

vars == <<status, capacity, cache, nodes, ret, exc, last, now, touch, lastSet, evicted, victim, hit,
          th, srt, rd, tm, fs, sq>>

\* a component that takes no part in the specification at hand
Off == [pc |-> "off"]

\* ------------------------------------------------------------------ heap
Node(key, value) == [key |-> key, value |-> value, prev |-> None, next |-> None]

Min(S) == CHOOSE x \in S : \A y \in S : x <= y

\* identity of a freshly allocated object: one no live object has
NewId(ns) == Min({i \in 3..(Cardinality(DOMAIN ns) + 3) : i \notin DOMAIN ns})

Range(f) == {f[x] : x \in DOMAIN f}

RECURSIVE Reach(_, _)
Reach(ns, S) ==
    LET T == S \cup {n \in DOMAIN ns : \E m \in S : m \in DOMAIN ns
                                          /\ (ns[m].prev = n \/ ns[m].next = n)}
    IN IF T = S THEN S ELSE Reach(ns, T)

\* reference-counted reclamation: only objects reachable from self survive
Collect(c, ns) ==
    LET live == Reach(ns, ({head, tail} \cup Range(c)) \cap DOMAIN ns)
    IN [i \in live |-> ns[i]]

\* ------------------------------------------------------- list primitives
\* variant: the node is linked in front of the tail sentinel
add_node_at_tail(ns, node) ==
    LET n1 == [ns EXCEPT ![node].next = tail]
        n2 == [n1 EXCEPT ![node].prev = n1[tail].prev]
        n3 == IF n2[tail].prev # None
              THEN [n2 EXCEPT ![n2[tail].prev].next = node]
              ELSE n2
    IN [n3 EXCEPT ![tail].prev = node]

add_node(ns, node) ==
    LET n1 == [ns EXCEPT ![node].prev = head]
        n2 == [n1 EXCEPT ![node].next = n1[head].next]
        n3 == IF n2[head].next # None
              THEN [n2 EXCEPT ![n2[head].next].prev = node]
              ELSE n2
    IN [n3 EXCEPT ![head].next = node]

\* variant: the predecessor keeps its next-link to the removed node
remove_node_half(ns, node) ==
    LET prev_node == ns[node].prev
        next_node == ns[node].next
    IN IF next_node # None
       THEN [ns EXCEPT ![next_node].prev = prev_node]
       ELSE ns

remove_node(ns, node) ==
    LET prev_node == ns[node].prev
        next_node == ns[node].next
        n1 == IF prev_node # None
              THEN [ns EXCEPT ![prev_node].next = next_node]
              ELSE ns
    IN IF next_node # None
       THEN [n1 EXCEPT ![next_node].prev = prev_node]
       ELSE n1

\* variant: the node stays where it is
move_to_head_stay(ns, node) == ns

move_to_head(ns, node) == add_node(remove_node(ns, node), node)

\* variant: the node next to the head sentinel is popped
pop_head(ns) ==
    LET last_node == ns[head].next
    IN IF last_node # None
       THEN [nodes |-> remove_node(ns, last_node), node |-> last_node, exc |-> "none"]
       ELSE [nodes |-> ns, node |-> None, exc |-> "RuntimeError"]

\* variant: the popped node stays linked
pop_tail_keep(ns) ==
    LET last_node == ns[tail].prev
    IN IF last_node # None
       THEN [nodes |-> ns, node |-> last_node, exc |-> "none"]
       ELSE [nodes |-> ns, node |-> None, exc |-> "RuntimeError"]

pop_tail(ns) ==
    LET last_node == ns[tail].prev
    IN IF last_node # None
       THEN [nodes |-> remove_node(ns, last_node), node |-> last_node, exc |-> "none"]
       ELSE [nodes |-> ns, node |-> None, exc |-> "RuntimeError"]

\* ------------------------------------------------------------ operations
size(c) == Cardinality(DOMAIN c)

\* variant: the lookup never finds the key
lookup_miss(c, key) == None

\* self.cache.get(key): the mapped node, or None
lookup(c, key) == IF key \in DOMAIN c THEN c[key] ELSE None

\* variant: eviction starts one entry early
full_early(c, cap) == size(c) >= cap - 1

\* variant: off by one in the capacity test
full_gt(c, cap) == size(c) > cap

full(c, cap) == size(c) >= cap

\* variant: the evicted key stays in the mapping
del_key_skip(c, key) == c

\* del self.cache[tail.key]
del_key(c, key) == [k \in DOMAIN c \ {key} |-> c[k]]

\* self.cache[key] = new_node
put_key(c, key, node) == (key :> node) @@ c

\* variant: the old value is kept
store_skip(ns, node, value) == ns

\* node.value = value
store(ns, node, value) == [ns EXCEPT ![node].value = value]

\* variant: only negative capacities are rejected
init_neg(cap) ==
    IF cap < 0
    THEN [exc |-> "ValueError", capacity |-> 0, cache |-> <<>>, nodes |-> <<>>]
    ELSE [exc |-> "none", capacity |-> cap, cache |-> <<>>,
          nodes |-> (head :> [Node(-1, -1) EXCEPT !.next = tail])
                    @@ (tail :> [Node(-1, -1) EXCEPT !.prev = head])]

init(cap) ==
    IF cap <= 0
    THEN [exc |-> "ValueError", capacity |-> 0, cache |-> <<>>, nodes |-> <<>>]
    ELSE [exc |-> "none", capacity |-> cap, cache |-> <<>>,
          nodes |-> (head :> [Node(-1, -1) EXCEPT !.next = tail])
                    @@ (tail :> [Node(-1, -1) EXCEPT !.prev = head])]

\* variant: a miss returns the dict default instead of -1
get_none(c, ns, key) ==
    LET node == lookup(c, key)
    IN IF node = None
       THEN [ret |-> None, nodes |-> ns, hit |-> FALSE]
       ELSE LET n1 == move_to_head(ns, node)
            IN [ret |-> n1[node].value, nodes |-> n1, hit |-> TRUE]

get(c, ns, key) ==
    LET node == lookup(c, key)
    IN IF node = None
       THEN [ret |-> NotFound, nodes |-> ns, hit |-> FALSE]
       ELSE LET n1 == move_to_head(ns, node)
            IN [ret |-> n1[node].value, nodes |-> n1, hit |-> TRUE]

\* variant: the zero-capacity test is missing
degenerate_never(cap) == FALSE

\* if self.capacity == 0
degenerate(cap) == cap = 0

set(c, ns, cap, key, value) ==
    IF degenerate(cap)
    THEN [cache |-> c, nodes |-> ns, exc |-> "none", popped |-> None, done |-> FALSE]
    ELSE
    LET node == lookup(c, key)
    IN IF node = None
       THEN LET new_node == NewId(ns)
                n0 == (new_node :> Node(key, value)) @@ ns
            IN IF full(c, cap)
               THEN LET p == pop_tail(n0)
                    IN IF p.exc # "none"
                       THEN [cache |-> c, nodes |-> ns, exc |-> p.exc,
                             popped |-> None, done |-> FALSE]
                       ELSE LET tkey == n0[p.node].key
                            IN IF tkey \notin DOMAIN c
                               THEN [cache |-> c, nodes |-> Collect(c, [i \in DOMAIN ns |-> p.nodes[i]]),
                                     exc |-> "KeyError", popped |-> None, done |-> FALSE]
                               ELSE LET c1 == del_key(c, tkey)
                                        c2 == put_key(c1, key, new_node)
                                    IN [cache |-> c2,
                                        nodes |-> Collect(c2, add_node(p.nodes, new_node)),
                                        exc |-> "none", popped |-> tkey, done |-> TRUE]
               ELSE LET c2 == put_key(c, key, new_node)
                    IN [cache |-> c2, nodes |-> Collect(c2, add_node(n0, new_node)),
                        exc |-> "none", popped |-> None, done |-> TRUE]
       ELSE LET n1 == store(ns, node, value)
            IN [cache |-> c, nodes |-> move_to_head(n1, node),
                exc |-> "none", popped |-> None, done |-> TRUE]

\* --------------------------------------------------------------- actions
NoOp == [op |-> "none", key |-> 0, value |-> 0]

Init ==
    /\ status = "new"
    /\ capacity = 0
    /\ cache = <<>>
    /\ nodes = <<>>
    /\ ret = None
    /\ exc = "none"
    /\ last = NoOp
    /\ now = 0
    /\ touch = [k \in Keys |-> 0]
    /\ lastSet = <<>>
    /\ evicted = {}
    /\ victim = None
    /\ hit = FALSE
    /\ th = Off /\ srt = Off /\ rd = Off /\ tm = Off /\ fs = Off /\ sq = Off

Construct ==
    \E cap \in Capacities :
        LET r == init(cap)
        IN /\ status = "new"
           /\ status' = IF r.exc = "none" THEN "ready" ELSE "failed"
           /\ capacity' = r.capacity
           /\ cache' = r.cache
           /\ nodes' = r.nodes
           /\ exc' = r.exc
           /\ last' = [op |-> "init", key |-> 0, value |-> cap]
           /\ UNCHANGED <<ret, now, touch, lastSet, evicted, victim, hit, th, srt, rd, tm, fs, sq>>

Get ==
    \E key \in Keys :
        LET r == get(cache, nodes, key)
        IN /\ status = "ready"
           /\ now < MaxOps
           /\ nodes' = r.nodes
           /\ ret' = r.ret
           /\ exc' = "none"
           /\ last' = [op |-> "get", key |-> key, value |-> 0]
           /\ now' = now + 1
           /\ touch' = IF r.hit THEN [touch EXCEPT ![key] = now + 1] ELSE touch
           /\ victim' = None
           /\ hit' = r.hit
           /\ UNCHANGED <<status, capacity, cache, lastSet, evicted, th, srt, rd, tm, fs, sq>>

Set ==
    \E key \in Keys, value \in Values :
        LET r == set(cache, nodes, capacity, key, value)
        IN /\ status = "ready"
           /\ now < MaxOps
           /\ cache' = r.cache
           /\ nodes' = r.nodes
           /\ exc' = r.exc
           /\ ret' = None
           /\ last' = [op |-> "set", key |-> key, value |-> value]
           /\ now' = now + 1
           /\ touch' = IF r.done THEN [touch EXCEPT ![key] = now + 1] ELSE touch
           /\ lastSet' = IF r.done THEN (key :> value) @@ lastSet ELSE lastSet
           /\ evicted' = IF r.done
                         THEN (evicted \ {key}) \cup (IF r.popped = None THEN {} ELSE {r.popped})
                         ELSE evicted
           /\ victim' = r.popped
           /\ hit' = (lookup(cache, key) # None)
           /\ UNCHANGED <<status, capacity, th, srt, rd, tm, fs, sq>>

Size ==
    /\ status = "ready"
    /\ now < MaxOps
    /\ ret' = size(cache)
    /\ exc' = "none"
    /\ last' = [op |-> "size", key |-> 0, value |-> 0]
    /\ now' = now + 1
    /\ victim' = None
    /\ hit' = FALSE
    /\ UNCHANGED <<status, capacity, cache, nodes, touch, lastSet, evicted, th, srt, rd, tm, fs, sq>>

Next == Construct \/ Get \/ Set \/ Size

Spec == Init /\ [][Next]_vars

\* the calling code assigns the public attribute: cache.capacity = 0
Degrade ==
    /\ status = "ready"
    /\ capacity # 0
    /\ capacity' = 0
    /\ last' = [op |-> "capacity", key |-> 0, value |-> 0]
    /\ UNCHANGED <<status, cache, nodes, ret, exc, now, touch, lastSet, evicted,
                   victim, hit, th, srt, rd, tm, fs, sq>>

NextAttr == Construct \/ Get \/ Set \/ Size \/ Degrade

SpecAttr == Init /\ [][NextAttr]_vars

\* ------------------------------------------- two callers without a lock
\* Each caller runs one get or set; a step is one statement of the source
\* (labels carry the line number), the callers share the mapping and the heap.
ThKeys == 3
ThCap == 2

Threads == {1, 2}

Local(op, key, value) ==
    [op |-> op, key |-> key, value |-> value,
     pc |-> IF op = "get" THEN "g101" ELSE "s118",
     stack |-> <<>>, node |-> None, new_node |-> None, tl |-> None,
     last_node |-> None, rm |-> None, prev_node |-> None, next_node |-> None,
     ad |-> None, result |-> None, exc |-> "none"]

Calls ==
    {Local("get", k, 0) : k \in 1..ThKeys}
      \cup {Local("set", k, v) : k \in 1..ThKeys, v \in Values}

R(l, c, ns) == [l |-> l, c |-> c, ns |-> ns]

Goto(l, pc) == [l EXCEPT !.pc = pc]

\* enter a method: the statement to come back to is pushed
Call(l, pc, back) == [l EXCEPT !.pc = pc, !.stack = <<back>> \o l.stack]

\* leave a method
Return(l) == [l EXCEPT !.pc = l.stack[1], !.stack = SubSeq(l.stack, 2, Len(l.stack))]

Raise(l, e) == [l EXCEPT !.pc = "raised", !.exc = e]

get_stmt(l, c, ns) ==
    CASE l.pc = "g101" -> R(Goto([l EXCEPT !.node = lookup(c, l.key)], "g103"), c, ns)
      [] l.pc = "g103" -> IF l.node = None
                          THEN R(Goto([l EXCEPT !.result = NotFound], "done"), c, ns)
                          ELSE R(Goto(l, "g107"), c, ns)
      [] l.pc = "g107" -> R(Call([l EXCEPT !.rm = l.node], "r69", "m79"), c, ns)
      [] l.pc = "g108" -> R(Goto([l EXCEPT !.result = ns[l.node].value], "done"), c, ns)

set_stmt(l, c, ns, cap) ==
    CASE l.pc = "s118" -> R(Goto(l, IF degenerate(cap) THEN "done" ELSE "s122"), c, ns)
      [] l.pc = "s122" -> R(Goto([l EXCEPT !.node = lookup(c, l.key)], "s124"), c, ns)
      [] l.pc = "s124" -> R(Goto(l, IF l.node = None THEN "s125" ELSE "s137"), c, ns)
      [] l.pc = "s125" -> LET id == NewId(ns)
                          IN R(Goto([l EXCEPT !.new_node = id], "s127"), c,
                               (id :> Node(l.key, l.value)) @@ ns)
      [] l.pc = "s127" -> R(Goto(l, IF full(c, cap) THEN "s129" ELSE "s133"), c, ns)
      [] l.pc = "s129" -> R(Goto(l, "p83"), c, ns)
      [] l.pc = "s130" -> IF ns[l.tl].key \in DOMAIN c
                          THEN R(Goto(l, "s133"), del_key(c, ns[l.tl].key), ns)
                          ELSE R(Raise(l, "KeyError"), c, ns)
      [] l.pc = "s133" -> R(Goto(l, "s134"), put_key(c, l.key, l.new_node), ns)
      [] l.pc = "s134" -> R(Call([l EXCEPT !.ad = l.new_node], "a61", "done"), c, ns)
      [] l.pc = "s137" -> R(Goto(l, "s138"), c, store(ns, l.node, l.value))
      [] l.pc = "s138" -> R(Call([l EXCEPT !.rm = l.node], "r69", "m79"), c, ns)

\* line 79 of _move_to_head; its caller continues at g108 (get) or ends (set)
move_to_head_stmt(l, c, ns) ==
    R(Call([l EXCEPT !.ad = l.node], "a61", IF l.op = "get" THEN "g108" ELSE "done"),
      c, ns)

remove_node_stmt(l, c, ns) ==
    CASE l.pc = "r69" -> R(Goto([l EXCEPT !.prev_node = ns[l.rm].prev], "r70"), c, ns)
      [] l.pc = "r70" -> R(Goto([l EXCEPT !.next_node = ns[l.rm].next], "r71"), c, ns)
      [] l.pc = "r71" -> R(Goto(l, "r73"), c,
                           IF l.prev_node # None
                           THEN [ns EXCEPT ![l.prev_node].next = l.next_node]
                           ELSE ns)
      [] l.pc = "r73" -> R(Return(l), c,
                           IF l.next_node # None
                           THEN [ns EXCEPT ![l.next_node].prev = l.prev_node]
                           ELSE ns)

add_node_stmt(l, c, ns) ==
    CASE l.pc = "a61" -> R(Goto(l, "a62"), c, [ns EXCEPT ![l.ad].prev = head])
      [] l.pc = "a62" -> R(Goto(l, "a63"), c, [ns EXCEPT ![l.ad].next = ns[head].next])
      [] l.pc = "a63" -> R(Goto(l, IF ns[head].next # None THEN "a64" ELSE "a65"), c, ns)
      [] l.pc = "a64" -> IF ns[head].next # None
                         THEN R(Goto(l, "a65"), c, [ns EXCEPT ![ns[head].next].prev = l.ad])
                         ELSE R(Raise(l, "AttributeError"), c, ns)
      [] l.pc = "a65" -> R(Return(l), c, [ns EXCEPT ![head].next = l.ad])

pop_tail_stmt(l, c, ns) ==
    CASE l.pc = "p83" -> R(Goto([l EXCEPT !.last_node = ns[tail].prev], "p84"), c, ns)
      [] l.pc = "p84" -> IF l.last_node # None
                         THEN R(Call([l EXCEPT !.rm = l.last_node], "r69", "p86"), c, ns)
                         ELSE R(Raise(l, "RuntimeError"), c, ns)
      [] l.pc = "p86" -> R(Goto([l EXCEPT !.tl = l.last_node], "s130"), c, ns)

RECURSIVE Prefill(_, _)
\* the cache after construction with capacity cap and set(1, 0) .. set(n, 0)
Prefill(cap, n) ==
    IF n = 0
    THEN [cache |-> init(cap).cache, nodes |-> init(cap).nodes]
    ELSE LET p == Prefill(cap, n - 1)
             r == set(p.cache, p.nodes, cap, n, 0)
         IN [cache |-> r.cache, nodes |-> r.nodes]

InitThreads ==
    /\ status = "ready"
    /\ \E cap \in 1..ThCap : \E n \in 0..cap :
         /\ capacity = cap
         /\ cache = Prefill(cap, n).cache
         /\ nodes = Prefill(cap, n).nodes
    /\ th \in [Threads -> Calls]
    /\ ret = None /\ exc = "none" /\ last = NoOp /\ now = 0
    /\ touch = [k \in Keys |-> 0] /\ lastSet = <<>> /\ evicted = {}
    /\ victim = None /\ hit = FALSE
    /\ srt = Off /\ rd = Off /\ tm = Off /\ fs = Off /\ sq = Off

Commit(t, r) ==
    /\ th' = [th EXCEPT ![t] = r.l]
    /\ cache' = r.c
    /\ nodes' = r.ns
    /\ UNCHANGED <<status, capacity, ret, exc, last, now, touch, lastSet, evicted,
                   victim, hit, srt, rd, tm, fs, sq>>

ThGet(t) ==
    /\ th[t].pc \in {"g101", "g103", "g107", "g108"}
    /\ Commit(t, get_stmt(th[t], cache, nodes))

ThSet(t) ==
    /\ th[t].pc \in {"s118", "s122", "s124", "s125", "s127", "s129", "s130",
                     "s133", "s134", "s137", "s138"}
    /\ Commit(t, set_stmt(th[t], cache, nodes, capacity))

ThMoveToHead(t) ==
    /\ th[t].pc = "m79"
    /\ Commit(t, move_to_head_stmt(th[t], cache, nodes))

ThRemoveNode(t) ==
    /\ th[t].pc \in {"r69", "r70", "r71", "r73"}
    /\ Commit(t, remove_node_stmt(th[t], cache, nodes))

ThAddNode(t) ==
    /\ th[t].pc \in {"a61", "a62", "a63", "a64", "a65"}
    /\ Commit(t, add_node_stmt(th[t], cache, nodes))

ThPopTail(t) ==
    /\ th[t].pc \in {"p83", "p84", "p86"}
    /\ Commit(t, pop_tail_stmt(th[t], cache, nodes))

ThStep(t) ==
    ThGet(t) \/ ThSet(t) \/ ThMoveToHead(t) \/ ThRemoveNode(t) \/ ThAddNode(t)
      \/ ThPopTail(t)

NextThreads == \E t \in Threads : ThStep(t)

SpecThreads == InitThreads /\ [][NextThreads]_vars

\* ------------------------------------------------------------- sort_012
\* src/src/enhanced_problem4.py.  Lists are objects on a small heap (srt.heap
\* maps a reference to the list's contents); ArgRef is the caller's list.
\* Python indices start at 0, sequence positions at 1.
MaxLen == 4

SortVals == -1..3

ArgRef == 1
NewRef == 2

Lists(V, n) == UNION {[1..m -> V] : m \in 0..n}

At(l, i) == l[i + 1]

Swap(l, i, j) == [l EXCEPT ![i + 1] = l[j + 1], ![j + 1] = l[i + 1]]

Occurrences(l, v) == Cardinality({i \in 1..Len(l) : l[i] = v})

Repeat(v, n) == [i \in 1..n |-> v]

\* variant: only the upper end of the range is tested
valid_012_upper(l) == \A i \in 1..Len(l) : l[i] <= 2

\* all(x in [0, 1, 2] for x in input_list)
valid_012(l) == \A i \in 1..Len(l) : l[i] \in {0, 1, 2}

sort_012_counting(l) ==
    IF l = <<>>
    THEN [exc |-> "none", result |-> <<>>]
    ELSE IF ~valid_012(l)
    THEN [exc |-> "ValueError", result |-> <<>>]
    ELSE LET count == [v \in 0..2 |-> Occurrences(l, v)]
         IN [exc |-> "none",
             result |-> Repeat(0, count[0]) \o Repeat(1, count[1]) \o Repeat(2, count[2])]

\* variant: mid also advances after a 2 was swapped to the right
dnf_step_advance(l, low, mid, high) ==
    IF At(l, mid) = 0
    THEN [list |-> Swap(l, low, mid), low |-> low + 1, mid |-> mid + 1, high |-> high]
    ELSE IF At(l, mid) = 1
    THEN [list |-> l, low |-> low, mid |-> mid + 1, high |-> high]
    ELSE [list |-> Swap(l, mid, high), low |-> low, mid |-> mid + 1, high |-> high - 1]

\* one iteration of the while loop of sort_012_inplace
dnf_step(l, low, mid, high) ==
    IF At(l, mid) = 0
    THEN [list |-> Swap(l, low, mid), low |-> low + 1, mid |-> mid + 1, high |-> high]
    ELSE IF At(l, mid) = 1
    THEN [list |-> l, low |-> low, mid |-> mid + 1, high |-> high]
    ELSE [list |-> Swap(l, mid, high), low |-> low, mid |-> mid, high |-> high - 1]

\* variant: the result is the argument list itself
copy_alias(h, r) == [heap |-> h, ref |-> r]

\* input_list.copy(): a new list object with the same contents
copy(h, r) == [heap |-> (NewRef :> h[r]) @@ h, ref |-> NewRef]

InitSort ==
    /\ \E l \in Lists(SortVals, MaxLen) :
         srt = [pc |-> "call", func |-> "none", input |-> l, heap |-> (ArgRef :> l),
                target |-> None, low |-> 0, mid |-> 0, high |-> 0, iters |-> 0,
                exc |-> "none", result |-> None]
    /\ status = "new" /\ capacity = 0 /\ cache = <<>> /\ nodes = <<>>
    /\ ret = None /\ exc = "none" /\ last = NoOp /\ now = 0
    /\ touch = [k \in Keys |-> 0] /\ lastSet = <<>> /\ evicted = {}
    /\ victim = None /\ hit = FALSE
    /\ th = Off /\ rd = Off /\ tm = Off /\ fs = Off /\ sq = Off

SortFrame ==
    UNCHANGED <<status, capacity, cache, nodes, ret, exc, last, now, touch, lastSet,
                evicted, victim, hit, th, rd, tm, fs, sq>>

\* result = sort_012_counting(arg)
SortCounting ==
    /\ srt.pc = "call"
    /\ LET r == sort_012_counting(srt.heap[ArgRef])
       IN srt' = IF r.exc = "none"
                 THEN [srt EXCEPT !.pc = "done", !.func = "counting",
                                  !.heap = (NewRef :> r.result) @@ srt.heap,
                                  !.result = NewRef]
                 ELSE [srt EXCEPT !.pc = "done", !.func = "counting", !.exc = r.exc]
    /\ SortFrame

\* sort_012_inplace(arg)
SortInplace ==
    /\ srt.pc = "call"
    /\ srt' = [srt EXCEPT !.pc = "entry", !.func = "inplace", !.target = ArgRef]
    /\ SortFrame

\* sort_012_functional(arg): the copy, then the call of sort_012_inplace
SortFunctional ==
    /\ srt.pc = "call"
    /\ LET c == copy(srt.heap, ArgRef)
       IN srt' = [srt EXCEPT !.pc = "entry", !.func = "functional",
                             !.heap = c.heap, !.target = c.ref]
    /\ SortFrame

\* lines 73-82: the empty list, the validation, the three pointers
SortValidate ==
    /\ srt.pc = "entry"
    /\ LET l == srt.heap[srt.target]
       IN srt' = IF l = <<>>
                 THEN [srt EXCEPT !.pc = "done",
                                  !.result = IF srt.func = "functional"
                                             THEN srt.target ELSE None]
                 ELSE IF ~valid_012(l)
                 THEN [srt EXCEPT !.pc = "done", !.exc = "ValueError"]
                 ELSE [srt EXCEPT !.pc = "loop", !.low = 0, !.mid = 0,
                                  !.high = Len(l) - 1]
    /\ SortFrame

\* lines 84-96: one iteration
SortIterate ==
    /\ srt.pc = "loop"
    /\ srt.mid <= srt.high
    /\ LET r == dnf_step(srt.heap[srt.target], srt.low, srt.mid, srt.high)
       IN srt' = [srt EXCEPT !.heap = [srt.heap EXCEPT ![srt.target] = r.list],
                             !.low = r.low, !.mid = r.mid, !.high = r.high,
                             !.iters = srt.iters + 1]
    /\ SortFrame

\* the loop test fails; sort_012_functional returns its copy
SortReturn ==
    /\ srt.pc = "loop"
    /\ ~(srt.mid <= srt.high)
    /\ srt' = [srt EXCEPT !.pc = "done",
                          !.result = IF srt.func = "functional" THEN srt.target ELSE None]
    /\ SortFrame

NextSort ==
    SortCounting \/ SortInplace \/ SortFunctional \/ SortValidate \/ SortIterate
      \/ SortReturn

SpecSort == InitSort /\ [][NextSort]_vars

\* what the caller holds after the call: the returned list, or for
\* sort_012_inplace its own list
SortOutput == IF srt.func = "inplace" THEN srt.heap[ArgRef] ELSE srt.heap[srt.result]

IsSorted(l) == \A i, j \in 1..Len(l) : i < j => l[i] <= l[j]

\* ----------------------------------------------------- rearrange_digits
\* src/src/enhanced_problem3.py.  A number is built from its digit string by
\* int() and read back by str(), so leading zeros are lost on the way.
MaxDigits == 4

Digits == 0..9

Invalid == <<-1, -1>>

\* int(''.join(digits)) if digits else 0
RECURSIVE ToInt(_)
ToInt(ds) ==
    IF ds = <<>> THEN 0
    ELSE 10 * ToInt(SubSeq(ds, 1, Len(ds) - 1)) + ds[Len(ds)]

\* str(n) for n >= 0, as the sequence of its decimal digits
RECURSIVE Str(_)
Str(n) == IF n < 10 THEN <<n>> ELSE Str(n \div 10) \o <<n % 10>>

\* sorted(..) of a sequence of digit characters
RECURSIVE SortedDigits(_, _)
SortedDigits(l, d) ==
    IF d > 9 THEN <<>> ELSE Repeat(d, Occurrences(l, d)) \o SortedDigits(l, d + 1)

\* variant: the digits are visited from 0 upwards
digit_at_up(i) == i

\* the i-th value of range(9, -1, -1)
digit_at(i) == 9 - i

\* lines 62-70: the digits from largest to smallest, dealt out in turn
RECURSIVE place(_, _, _, _, _)
place(i, digit_count, num1_digits, num2_digits, use_first) ==
    IF i > 9
    THEN [num1_digits |-> num1_digits, num2_digits |-> num2_digits]
    ELSE IF digit_count[digit_at(i)] > 0
    THEN place(i, [digit_count EXCEPT ![digit_at(i)] = @ - 1],
               IF use_first THEN Append(num1_digits, digit_at(i)) ELSE num1_digits,
               IF use_first THEN num2_digits ELSE Append(num2_digits, digit_at(i)),
               ~use_first)
    ELSE place(i + 1, digit_count, num1_digits, num2_digits, use_first)

rearrange_digits(input_list) ==
    IF input_list = <<>>
    THEN [exc |-> "none", result |-> Invalid]
    ELSE IF Len(input_list) = 1
    THEN [exc |-> "none", result |-> Invalid]
    ELSE IF ~(\A i \in 1..Len(input_list) : input_list[i] \in Digits)
    THEN [exc |-> "ValueError", result |-> Invalid]
    ELSE LET digit_count == [d \in Digits |-> Occurrences(input_list, d)]
             p == place(0, digit_count, <<>>, <<>>, TRUE)
         IN [exc |-> "none",
             result |-> <<ToInt(p.num1_digits), ToInt(p.num2_digits)>>]

validate_solution(input_list, result) ==
    IF result = Invalid
    THEN Len(input_list) <= 1
    ELSE SortedDigits(input_list, 0) = SortedDigits(Str(result[1]) \o Str(result[2]), 0)

InitDigits ==
    /\ \E l \in Lists(Digits, MaxDigits) :
         rd = [pc |-> "call", input |-> l, result |-> Invalid, exc |-> "none",
               valid |-> FALSE]
    /\ status = "new" /\ capacity = 0 /\ cache = <<>> /\ nodes = <<>>
    /\ ret = None /\ exc = "none" /\ last = NoOp /\ now = 0
    /\ touch = [k \in Keys |-> 0] /\ lastSet = <<>> /\ evicted = {}
    /\ victim = None /\ hit = FALSE
    /\ th = Off /\ srt = Off /\ tm = Off /\ fs = Off /\ sq = Off

DigitsFrame ==
    UNCHANGED <<status, capacity, cache, nodes, ret, exc, last, now, touch, lastSet,
                evicted, victim, hit, th, srt, tm, fs, sq>>

\* result = rearrange_digits(input_list)
Rearrange ==
    /\ rd.pc = "call"
    /\ LET r == rearrange_digits(rd.input)
       IN rd' = [rd EXCEPT !.pc = "returned", !.result = r.result, !.exc = r.exc]
    /\ DigitsFrame

\* is_valid = validate_solution(input_list, result)
Validate ==
    /\ rd.pc = "returned"
    /\ rd.exc = "none"
    /\ rd' = [rd EXCEPT !.pc = "validated",
                        !.valid = validate_solution(rd.input, rd.result)]
    /\ DigitsFrame

NextDigits == Rearrange \/ Validate

SpecDigits == InitDigits /\ [][NextDigits]_vars

RECURSIVE Pow10(_)
Pow10(n) == IF n = 0 THEN 1 ELSE 10 * Pow10(n - 1)

\* the numbers that the digits at the positions S of l can be ordered into
RECURSIVE Numbers(_, _)
Numbers(l, S) ==
    IF S = {} THEN {0}
    ELSE UNION {{l[i] * Pow10(Cardinality(S) - 1) + n : n \in Numbers(l, S \ {i})}
                  : i \in S}

\* the sums a + b over the splits of l into two non-empty groups, each
\* ordered into a number; balanced: the group sizes differ by at most one
Sums(l, balanced) ==
    LET I == 1..Len(l)
        Splits == {S \in SUBSET I :
                     /\ S # {} /\ S # I
                     /\ balanced => 2 * Cardinality(S) - Len(l) \in {-1, 0, 1}}
    IN UNION {{a + b : a \in Numbers(l, S), b \in Numbers(l, I \ S)} : S \in Splits}

Max(S) == CHOOSE x \in S : \A y \in S : y <= x

\* ------------------------------------------------------- chain and ghosts
RECURSIVE Walk(_, _, _)
Walk(ns, n, fuel) ==
    IF n = None \/ n = tail \/ n \notin DOMAIN ns \/ fuel = 0
    THEN <<>>
    ELSE <<n>> \o Walk(ns, ns[n].next, fuel - 1)

\* the nodes met walking next-links from the head sentinel up to the tail
ChainIds(ns) == Walk(ns, ns[head].next, Cardinality(DOMAIN ns))

ChainKeys(ns) == [i \in 1..Len(ChainIds(ns)) |-> ns[ChainIds(ns)[i]].key]

SeqToSet(s) == {s[i] : i \in 1..Len(s)}

ValueOf(c, ns, key) == ns[c[key]].value

Without(s, key) == SelectSeq(s, LAMBDA x : x # key)

Ready == status = "ready"

\* the step just taken is a call of op
Called(op) == now' = now + 1 /\ last'.op = op

\* ------------------------------------------------- TelemarketerDetector
\* src/src/enhanced_task4.py.  Phone numbers are strings used only as set
\* elements; a record is a pair of numbers.
MaxPhone == 3
MaxRecords == 3

Phones == 1..MaxPhone

\* the cache takes no part in the specifications of the other programs
CacheIdle ==
    /\ status = "new" /\ capacity = 0 /\ cache = <<>> /\ nodes = <<>>
    /\ ret = None /\ exc = "none" /\ last = NoOp /\ now = 0
    /\ touch = [k \in Keys |-> 0] /\ lastSet = <<>> /\ evicted = {}
    /\ victim = None /\ hit = FALSE

CacheFrame ==
    UNCHANGED <<status, capacity, cache, nodes, ret, exc, last, now, touch, lastSet,
                evicted, victim, hit>>

\* __init__: four empty sets
TelemarketerDetector ==
    [outgoing_callers |-> {}, incoming_receivers |-> {}, text_senders |-> {},
     text_receivers |-> {}]

process_call_record(d, caller, receiver) ==
    [d EXCEPT !.outgoing_callers = @ \cup {caller},
              !.incoming_receivers = @ \cup {receiver}]

\* variant: the receiver of the text is not recorded
process_text_record_sender(d, sender, receiver) ==
    [d EXCEPT !.text_senders = @ \cup {sender}]

process_text_record(d, sender, receiver) ==
    [d EXCEPT !.text_senders = @ \cup {sender},
              !.text_receivers = @ \cup {receiver}]

\* variant: only the receivers of calls count as legitimate
get_legitimate_numbers_calls(d) == d.incoming_receivers

get_legitimate_numbers(d) ==
    d.incoming_receivers \cup d.text_senders \cup d.text_receivers

get_potential_telemarketers(d) == d.outgoing_callers \ get_legitimate_numbers(d)

\* one record of the input: a call or a text from a to b
Record(kind, a, b) == [kind |-> kind, a |-> a, b |-> b]

\* tm.d is the detector, tm.log the records processed so far, tm.result what
\* get_potential_telemarketers() returned last
InitTele ==
    /\ tm = [pc |-> "run", d |-> TelemarketerDetector, log |-> <<>>, result |-> {}]
    /\ CacheIdle
    /\ th = Off /\ srt = Off /\ rd = Off /\ fs = Off /\ sq = Off

TeleFrame == CacheFrame /\ UNCHANGED <<th, srt, rd, fs, sq>>

ProcessCall ==
    \E caller \in Phones, receiver \in Phones :
        /\ tm.pc \in {"run", "asked"}
        /\ Len(tm.log) < MaxRecords
        /\ tm' = [tm EXCEPT !.pc = "run",
                            !.d = process_call_record(tm.d, caller, receiver),
                            !.log = Append(tm.log, Record("call", caller, receiver))]
        /\ TeleFrame

ProcessText ==
    \E sender \in Phones, receiver \in Phones :
        /\ tm.pc \in {"run", "asked"}
        /\ Len(tm.log) < MaxRecords
        /\ tm' = [tm EXCEPT !.pc = "run",
                            !.d = process_text_record(tm.d, sender, receiver),
                            !.log = Append(tm.log, Record("text", sender, receiver))]
        /\ TeleFrame

GetPotential ==
    /\ tm.pc = "run"
    /\ tm' = [tm EXCEPT !.pc = "asked", !.result = get_potential_telemarketers(tm.d)]
    /\ TeleFrame

NextTele == ProcessCall \/ ProcessText \/ GetPotential

SpecTele == InitTele /\ [][NextTele]_vars

RECURSIVE Replay(_, _)
\* the detector after the first n records of the log
Replay(log, n) ==
    IF n = 0
    THEN TelemarketerDetector
    ELSE LET r == log[n]
             d == Replay(log, n - 1)
         IN IF r.kind = "call"
            THEN process_call_record(d, r.a, r.b)
            ELSE process_text_record(d, r.a, r.b)

\* the numbers that received a call or sent or received a text in the log
Active(log) ==
    {n \in Phones : \E i \in 1..Len(log) :
        \/ log[i].kind = "call" /\ log[i].b = n
        \/ log[i].kind = "text" /\ (log[i].a = n \/ log[i].b = n)}

\* the numbers that made a call in the log
Callers(log) ==
    {n \in Phones : \E i \in 1..Len(log) : log[i].kind = "call" /\ log[i].a = n}

\* ----------------------------------------------------- sqrt_binary_search
\* src/tests/test_comprehensive.py, lines 256-280.  Python integers are
\* unbounded, so mid * mid never wraps.
MaxNumber == 300
MaxNegative == 3

\* variant: the floor test accepts equality
sqrt_step_ge(number, left, right) ==
    LET mid == (left + right) \div 2
        square == mid * mid
    IN IF square = number
       THEN [done |-> TRUE, result |-> mid, left |-> left, right |-> right]
       ELSE IF square < number
       THEN IF (mid + 1) * (mid + 1) >= number
            THEN [done |-> TRUE, result |-> mid, left |-> left, right |-> right]
            ELSE [done |-> FALSE, result |-> None, left |-> mid + 1, right |-> right]
       ELSE [done |-> FALSE, result |-> None, left |-> left, right |-> mid - 1]

\* lines 267-278: one iteration of the loop
sqrt_step(number, left, right) ==
    LET mid == (left + right) \div 2
        square == mid * mid
    IN IF square = number
       THEN [done |-> TRUE, result |-> mid, left |-> left, right |-> right]
       ELSE IF square < number
       THEN IF (mid + 1) * (mid + 1) > number
            THEN [done |-> TRUE, result |-> mid, left |-> left, right |-> right]
            ELSE [done |-> FALSE, result |-> None, left |-> mid + 1, right |-> right]
       ELSE [done |-> FALSE, result |-> None, left |-> left, right |-> mid - 1]

InitSqrt ==
    /\ \E number \in (-MaxNegative)..MaxNumber :
         sq = [pc |-> "call", number |-> number, left |-> 0, right |-> 0, iters |-> 0,
               result |-> None, exc |-> "none"]
    /\ CacheIdle
    /\ th = Off /\ srt = Off /\ rd = Off /\ tm = Off /\ fs = Off

SqrtFrame == CacheFrame /\ UNCHANGED <<th, srt, rd, tm, fs>>

\* lines 258-264: the negative argument, 0 and 1, the two bounds
SqrtEnter ==
    /\ sq.pc = "call"
    /\ sq' = IF sq.number < 0
             THEN [sq EXCEPT !.pc = "raised", !.exc = "ValueError"]
             ELSE IF sq.number <= 1
             THEN [sq EXCEPT !.pc = "done", !.result = sq.number]
             ELSE [sq EXCEPT !.pc = "loop", !.left = 0, !.right = sq.number]
    /\ SqrtFrame

\* lines 266-280: the loop test, then one iteration or the return after the loop
SqrtIterate ==
    /\ sq.pc = "loop"
    /\ sq' = IF sq.left <= sq.right
             THEN LET r == sqrt_step(sq.number, sq.left, sq.right)
                  IN IF r.done
                     THEN [sq EXCEPT !.pc = "done", !.result = r.result,
                                     !.iters = sq.iters + 1]
                     ELSE [sq EXCEPT !.left = r.left, !.right = r.right,
                                     !.iters = sq.iters + 1]
             ELSE [sq EXCEPT !.pc = "done", !.result = sq.right]
    /\ SqrtFrame

NextSqrt == SqrtEnter \/ SqrtIterate

SpecSqrt == InitSqrt /\ [][NextSqrt]_vars

\* r is the floor of the square root of n
IsFloorSqrt(n, r) == r >= 0 /\ r * r <= n /\ n < (r + 1) * (r + 1)

\* ------------------------------------------------------------ FileSearcher
\* src/src/enhanced_file_finder.py.  A string is the sequence of its character
\* codes; the file system is a tree of directories 1..MaxDirs (1 is the root
\* of the tree, the parent of a directory has a smaller number) holding
\* regular files; at most one directory cannot be listed.
MaxDirs == 3
MaxFiles == 2
MaxDepth == 3

Dirs == 1..MaxDirs

\* "a.t", "a.T" and "b.p"
FileNames == {<<97, 46, 116>>, <<97, 46, 84>>, <<98, 46, 112>>}

\* ".t", ".T" and ""
Suffixes == {<<46, 116>>, <<46, 84>>, <<>>}

\* a path argument that does not exist, and one that names a regular file
Missing == 0
NotADir == -1

\* max_depth: <<>> is None, <<d>> the integer d
Depths == {<<>>} \cup {<<d>> : d \in 0..MaxDepth}

\* "d2", "d3", ...: the name of directory d
DirName(d) == <<100, 48 + d>>

\* os.path.join(a, b) for a relative name b
join(a, b) == IF a # <<>> /\ a[Len(a)] = 47 THEN a \o b ELSE a \o <<47>> \o b

RECURSIVE DirPath(_, _)
\* the path string of directory d, the root being "r"
DirPath(parent, d) == IF d = 1 THEN <<114>> ELSE join(DirPath(parent, parent[d]), DirName(d))

\* str.lower() on the ASCII letters
lower(str) == [i \in 1..Len(str) |-> IF str[i] >= 65 /\ str[i] <= 90 THEN str[i] + 32 ELSE str[i]]

\* str.endswith(suffix)
endswith(str, suffix) ==
    /\ Len(suffix) <= Len(str)
    /\ SubSeq(str, Len(str) - Len(suffix) + 1, Len(str)) = suffix

\* lines 116-118
matches_suffix(case_sensitive, filename, suffix) ==
    IF ~case_sensitive
    THEN endswith(lower(filename), lower(suffix))
    ELSE endswith(filename, suffix)

\* variant: one level more is searched
depth_exceeded_gt(max_depth, current_depth) ==
    max_depth # <<>> /\ current_depth > max_depth[1]

\* line 81
depth_exceeded(max_depth, current_depth) ==
    max_depth # <<>> /\ current_depth >= max_depth[1]

RECURSIVE recursive_search(_, _, _, _, _)
\* the paths appended to result_files by the call on directory dir; the order
\* of os.listdir is arbitrary and the caller sorts, so they are kept as a set
recursive_search(f, suffix, dir, max_depth, current_depth) ==
    IF depth_exceeded(max_depth, current_depth)
    THEN {}
    ELSE IF f.denied = dir
    THEN {}
    ELSE {join(DirPath(f.parent, dir), x.name) :
            x \in {y \in f.files : y.dir = dir
                                    /\ matches_suffix(f.case_sensitive, y.name, suffix)}}
         \cup UNION {recursive_search(f, suffix, c, max_depth, current_depth + 1) :
                       c \in {e \in Dirs \ {1} : f.parent[e] = dir}}

RECURSIVE StrLess(_, _)
\* a < b on strings: by character code, a proper prefix first
StrLess(a, b) ==
    IF b = <<>> THEN FALSE
    ELSE IF a = <<>> THEN TRUE
    ELSE IF a[1] # b[1] THEN a[1] < b[1]
    ELSE StrLess(Tail(a), Tail(b))

RECURSIVE sorted(_)
\* sorted() of a list of distinct strings, given as their set
sorted(S) ==
    IF S = {}
    THEN <<>>
    ELSE LET m == CHOOSE x \in S : \A y \in S : x = y \/ StrLess(x, y)
         IN <<m>> \o sorted(S \ {m})

\* lines 53-61
find_files(f, suffix, path, max_depth) ==
    IF path = Missing
    THEN [exc |-> "FileNotFoundError", result |-> <<>>]
    ELSE IF path = NotADir
    THEN [exc |-> "ValueError", result |-> <<>>]
    ELSE [exc |-> "none", result |-> sorted(recursive_search(f, suffix, path, max_depth, 0))]

InitFind ==
    /\ \E files \in {F \in SUBSET [dir : Dirs, name : FileNames] : Cardinality(F) <= MaxFiles} :
       \E parent \in {g \in [Dirs \ {1} -> Dirs] : \A d \in Dirs \ {1} : g[d] < d} :
       \E denied \in {0} \cup Dirs, case_sensitive \in BOOLEAN, suffix \in Suffixes :
       \E path \in {1, 2, Missing, NotADir}, max_depth \in Depths :
         fs = [pc |-> "call", parent |-> parent, files |-> files, denied |-> denied,
               case_sensitive |-> case_sensitive, suffix |-> suffix, path |-> path,
               max_depth |-> max_depth, result |-> <<>>, exc |-> "none"]
    /\ CacheIdle
    /\ th = Off /\ srt = Off /\ rd = Off /\ tm = Off /\ sq = Off

\* FileSearcher(case_sensitive).find_files(suffix, path, max_depth)
FindFiles ==
    /\ fs.pc = "call"
    /\ LET r == find_files(fs, fs.suffix, fs.path, fs.max_depth)
       IN fs' = [fs EXCEPT !.pc = "done", !.result = r.result, !.exc = r.exc]
    /\ CacheFrame
    /\ UNCHANGED <<th, srt, rd, tm, sq>>

NextFind == FindFiles

SpecFind == InitFind /\ [][NextFind]_vars

RECURSIVE Level(_, _, _)
\* how many directory levels d lies below path, -1 if it does not
Level(parent, d, path) ==
    IF d = path THEN 0
    ELSE IF d = 1 THEN -1
    ELSE LET u == Level(parent, parent[d], path)
         IN IF u < 0 THEN -1 ELSE u + 1

\* the files under fs.path within the depth limit
FilesWithin ==
    {x \in fs.files :
        /\ Level(fs.parent, x.dir, fs.path) >= 0
        /\ fs.max_depth # <<>> => Level(fs.parent, x.dir, fs.path) < fs.max_depth[1]}

FilePath(x) == join(DirPath(fs.parent, x.dir), x.name)

\* the result lists exactly the paths of the files in F, in ascending order
ResultIs(F) ==
    /\ SeqToSet(fs.result) = {FilePath(x) : x \in F}
    /\ Len(fs.result) = Cardinality(F)
    /\ \A i, j \in 1..Len(fs.result) : i < j => StrLess(fs.result[i], fs.result[j])

\* name ends with the suffix asked for, character for character
EndsWithSuffix(name) ==
    \E k \in 0..Len(name) :
        /\ Len(name) - k = Len(fs.suffix)
        /\ \A i \in 1..Len(fs.suffix) : name[k + i] = fs.suffix[i]

\* ---------------------------------------------------------------- claims

\* C1: for a cache constructed with capacity C >= 1, after any sequence of
\* get and set calls, size() <= C.
C1_SizeWithinCapacity == Ready => size(cache) <= capacity

\* a set on a full cache has evicted an entry and the cache is full again
C1_Witness ==
    /\ Ready /\ last.op = "set" /\ victim # None
    /\ size(cache) = capacity /\ capacity = MaxCap

\* C2: a set of an absent key on a full cache evicts exactly one entry, the
\* one whose last touch is the oldest of all entries present; every other
\* entry is still present with its value.
C2_EvictsLeastRecentlyTouched ==
    [][(Ready /\ Called("set") /\ last'.key \notin DOMAIN cache
              /\ size(cache) = capacity)
       => \E e \in DOMAIN cache :
             /\ \A k \in DOMAIN cache \ {e} : touch[e] < touch[k]
             /\ victim' = e
             /\ DOMAIN cache' = (DOMAIN cache \ {e}) \cup {last'.key}
             /\ \A k \in DOMAIN cache \ {e} :
                   ValueOf(cache', nodes', k) = ValueOf(cache, nodes, k)]_vars

\* an eviction from a cache of several entries, the others surviving
C2_Witness ==
    /\ Ready /\ last.op = "set" /\ victim # None /\ capacity = MaxCap
    /\ victim \notin DOMAIN cache /\ size(cache) = capacity
    /\ touch[victim] > 1

\* C3: in every state, set(k, v) followed immediately by get(k) returns v.
C3_SetThenGet ==
    (Ready /\ last.op = "set") => get(cache, nodes, last.key).ret = last.value

\* the set was of an absent key on a full single-entry cache
C3_Witness ==
    /\ Ready /\ last.op = "set" /\ victim # None /\ capacity = 1
    /\ last.key \in DOMAIN cache

\* C4: walking the chain from the head sentinel to the tail sentinel lists
\* the entries in strictly decreasing order of last touch; when size() > 0
\* the node before the tail sentinel is a real entry and the unique least
\* recently touched one.
C4_ChainOrderIsRecency ==
    Ready =>
      LET ks == ChainKeys(nodes)
      IN /\ \A i, j \in 1..Len(ks) : i < j => touch[ks[i]] > touch[ks[j]]
         /\ size(cache) > 0 =>
               LET n == nodes[tail].prev
               IN /\ n \notin {None, head, tail}
                  /\ n \in Range(cache)
                  /\ \A k \in DOMAIN cache \ {nodes[n].key} :
                        touch[k] > touch[nodes[n].key]

\* a get moved an entry from the tail end to the head of a full chain
C4_Witness ==
    /\ Ready /\ last.op = "get" /\ ret # NotFound /\ size(cache) = MaxCap
    /\ ChainKeys(nodes)[1] = last.key
    /\ touch[last.key] = now

\* C5: after every get or set, the keys of the mapping are exactly the keys
\* of the nodes on the chain between the sentinels, and each mapped node is
\* the chain node carrying that key.
C5_MappingMatchesChain ==
    Ready =>
      /\ DOMAIN cache = SeqToSet(ChainKeys(nodes))
      /\ Range(cache) = SeqToSet(ChainIds(nodes))
      /\ \A k \in DOMAIN cache : nodes[cache[k]].key = k

\* the mapping and the chain after an eviction
C5_Witness ==
    /\ Ready /\ last.op = "set" /\ victim # None
    /\ size(cache) >= 2 /\ victim \notin DOMAIN cache

\* C6: set(k, v) on a present key replaces its value by v, leaves size() and
\* the set of present keys unchanged (no eviction, also when full), makes k
\* the most recently used entry and leaves the relative order and the values
\* of all other entries unchanged.
C6_UpdateExistingKey ==
    [][(Ready /\ Called("set") /\ last'.key \in DOMAIN cache)
       => /\ ValueOf(cache', nodes', last'.key) = last'.value
          /\ size(cache') = size(cache)
          /\ DOMAIN cache' = DOMAIN cache
          /\ victim' = None
          /\ Len(ChainKeys(nodes')) = Len(ChainKeys(nodes))
          /\ ChainKeys(nodes')[1] = last'.key
          /\ Without(ChainKeys(nodes'), last'.key) = Without(ChainKeys(nodes), last'.key)
          /\ \A k \in DOMAIN cache \ {last'.key} :
                ValueOf(cache', nodes', k) = ValueOf(cache, nodes, k)]_vars

\* a present key was set again while the cache was full
C6_Witness ==
    /\ Ready /\ last.op = "set" /\ hit /\ size(cache) = capacity
    /\ capacity >= 2 /\ ValueOf(cache, nodes, last.key) = last.value

\* C7: once a key has been evicted, every get of it returns -1 until the key
\* is set again; a get of an evicted key never brings it back.
C7_EvictedStaysAbsent ==
    [][\A k \in evicted :
         /\ k \notin DOMAIN cache
         /\ (Called("get") /\ last'.key = k) => ret' = NotFound
         /\ ~(Called("set") /\ last'.key = k)
               => (k \in evicted' /\ k \notin DOMAIN cache')]_vars

\* a get of an evicted key has returned not-found
C7_Witness ==
    /\ Ready /\ last.op = "get" /\ last.key \in evicted /\ ret = NotFound
    /\ last.key \notin DOMAIN cache /\ size(cache) = capacity

\* C8: construction with capacity <= 0 fails with ValueError and produces no
\* cache; with capacity >= 1 it succeeds with an empty mapping, size() = 0
\* and the two sentinels linked directly to each other.
C8_Construction ==
    /\ status = "failed" => last.op = "init"
    /\ last.op = "init" =>
         IF last.value <= 0
         THEN /\ status = "failed" /\ exc = "ValueError"
              /\ cache = <<>> /\ nodes = <<>>
         ELSE /\ status = "ready" /\ exc = "none"
              /\ capacity = last.value
              /\ DOMAIN cache = {} /\ size(cache) = 0
              /\ DOMAIN nodes = {head, tail}
              /\ nodes[head].next = tail /\ nodes[tail].prev = head
              /\ nodes[head].prev = None /\ nodes[tail].next = None

\* construction with capacity 0 has failed
C8_Witness == status = "failed" /\ last.op = "init" /\ last.value = 0

\* C9: get(k) on an absent key returns not-found and changes nothing: the
\* mapping, every stored value, size() and the chain order are as before,
\* and the miss is no recency touch.
C9_MissChangesNothing ==
    [][(Ready /\ Called("get") /\ last'.key \notin DOMAIN cache)
       => /\ ret' = NotFound
          /\ cache' = cache
          /\ nodes' = nodes
          /\ size(cache') = size(cache)
          /\ ChainKeys(nodes') = ChainKeys(nodes)
          /\ touch' = touch]_vars

\* a get has missed on a cache holding several entries
C9_Witness ==
    /\ Ready /\ last.op = "get" /\ ~hit /\ ret = NotFound /\ size(cache) >= 2

\* C10: get(k) on a present key returns the value last set for k, and its
\* only state change is moving k's entry to the most recently used position.
C10_HitOnlyMovesToHead ==
    [][(Ready /\ Called("get") /\ last'.key \in DOMAIN cache)
       => /\ ret' = lastSet[last'.key]
          /\ cache' = cache
          /\ size(cache') = size(cache)
          /\ \A k \in DOMAIN cache :
                ValueOf(cache', nodes', k) = ValueOf(cache, nodes, k)
          /\ ChainKeys(nodes')
                = <<last'.key>> \o Without(ChainKeys(nodes), last'.key)]_vars

\* a get has hit an entry of a full cache and that entry now leads the chain
C10_Witness ==
    /\ Ready /\ last.op = "get" /\ hit /\ size(cache) = MaxCap
    /\ ret = lastSet[last.key] /\ ChainKeys(nodes)[1] = last.key
    /\ \E k \in DOMAIN cache : lastSet[k] # ret

\* C11: after a successful construction no get, set or size call raises:
\* _pop_tail is only called when a real entry is on the chain, so it neither
\* raises RuntimeError nor detaches the head sentinel, and the key deleted
\* from the mapping on eviction is in the mapping (no KeyError).
C11_NoCallRaises ==
    [][(Ready /\ now' = now + 1)
       => /\ exc' = "none"
          /\ (Called("set") /\ last'.key \notin DOMAIN cache /\ full(cache, capacity))
               => /\ nodes[tail].prev \notin {None, head, tail}
                  /\ nodes[nodes[tail].prev].key \in DOMAIN cache
          /\ head \in DOMAIN nodes' /\ tail \in DOMAIN nodes'
          /\ nodes'[head].prev = None /\ nodes'[tail].next = None]_vars

\* a second eviction has completed without an exception
C11_Witness ==
    /\ Ready /\ last.op = "set" /\ victim # None /\ exc = "none"
    /\ evicted # {victim}

C13_NoDuplicateKeys ==
    Ready =>
      LET ks == ChainKeys(nodes)
      IN /\ \A i, j \in 1..Len(ks) : ks[i] = ks[j] => i = j
         /\ Len(ks) = size(cache)
         /\ \A k \in DOMAIN cache : \E i \in 1..Len(ks) : ks[i] = k

\* a present key was set again in a cache of several entries
C13_Witness ==
    /\ Ready /\ last.op = "set" /\ hit /\ size(cache) >= 2
    /\ Len(ChainKeys(nodes)) = size(cache)

\* C14: a present key stops being present only by a set of a different,
\* absent key made while size() = capacity; no get, size, set of a present
\* key or set below capacity removes an entry.
C14_RemovedOnlyByEviction ==
    [][\A k \in DOMAIN cache :
         k \notin DOMAIN cache'
           => /\ Called("set")
              /\ last'.key # k
              /\ last'.key \notin DOMAIN cache
              /\ size(cache) = capacity]_vars

\* a key that was present has been removed by an eviction
C14_Witness ==
    /\ Ready /\ last.op = "set" /\ victim # None /\ ~hit
    /\ victim \notin DOMAIN cache /\ victim \in DOMAIN lastSet

\* C15 as stated: get(k) returns -1 if and only if k is not present.
C15_NotFoundIffAbsent ==
    Ready => \A k \in Keys :
               (get(cache, nodes, k).ret = NotFound) <=> (k \notin DOMAIN cache)

\* C15 amended: get(k) returns -1 if and only if k is not present or the
\* value last set for k is -1 itself.
C15_NotFoundIffAbsentOrStored ==
    Ready => \A k \in Keys :
               (get(cache, nodes, k).ret = NotFound)
                 <=> (k \notin DOMAIN cache \/ lastSet[k] = NotFound)

\* one key holds the value 0, one holds -1, and one is absent
C15_Witness ==
    /\ Ready /\ size(cache) >= 2 /\ size(cache) < MaxKey
    /\ \E k \in DOMAIN cache : lastSet[k] = NotFound
    /\ \E k \in DOMAIN cache : lastSet[k] = 0

\* the chain is a doubly linked list from the head to the tail sentinel
WellLinked(ns) ==
    LET ids == <<head>> \o ChainIds(ns) \o <<tail>>
    IN /\ ns[head].prev = None /\ ns[tail].next = None
       /\ \A i \in 1..(Len(ids) - 1) :
            ns[ids[i]].next = ids[i + 1] /\ ns[ids[i + 1]].prev = ids[i]

AllReturned == \A t \in Threads : th[t].pc \in {"done", "raised"}

\* C16: when the get and set calls of two callers interleave statement by
\* statement with no lock, no call raises and, once both have returned, the
\* mapping's keys are the chain's entries, the chain is a well-formed doubly
\* linked list and size() <= capacity.
C16_ThreadSafe ==
    /\ \A t \in Threads : th[t].pc # "raised"
    /\ AllReturned
         => /\ DOMAIN cache = SeqToSet(ChainKeys(nodes))
            /\ Len(ChainKeys(nodes)) = size(cache)
            /\ WellLinked(nodes)
            /\ size(cache) <= capacity

\* the same holds when one caller runs alone, the other not having started
C16_SequentialSanity ==
    \A t \in Threads :
        (th[t].pc \in {"done", "raised"} /\ \E u \in Threads \ {t} : th[u] \in Calls)
          => /\ th[t].pc = "done"
             /\ DOMAIN cache = SeqToSet(ChainKeys(nodes))
             /\ Len(ChainKeys(nodes)) = size(cache)
             /\ WellLinked(nodes)
             /\ size(cache) <= capacity
             /\ (th[t].op = "set" /\ capacity > 0)
                   => (th[t].key \in DOMAIN cache
                         /\ ValueOf(cache, nodes, th[t].key) = th[t].value)

\* the list holds nothing but 0s, 1s and 2s
Over012(l) == \A i \in 1..Len(l) : l[i] = 0 \/ l[i] = 1 \/ l[i] = 2

\* C17: for every list over {0, 1, 2}, sort_012_counting, sort_012_inplace
\* and sort_012_functional produce the same result: the input's elements in
\* non-decreasing order with the same number of 0s, 1s and 2s; the counting
\* and the functional version leave their argument unmodified.
C17_SortImplementationsAgree ==
    (srt.pc = "done" /\ Over012(srt.input))
      => /\ srt.exc = "none"
         /\ SortOutput = Repeat(0, Occurrences(srt.input, 0))
                           \o Repeat(1, Occurrences(srt.input, 1))
                           \o Repeat(2, Occurrences(srt.input, 2))
         /\ IsSorted(SortOutput)
         /\ \A v \in 0..2 : Occurrences(SortOutput, v) = Occurrences(srt.input, v)
         /\ Len(SortOutput) = Len(srt.input)
         /\ srt.func \in {"counting", "functional"} => srt.heap[ArgRef] = srt.input

\* sort_012_functional has returned the sorted copy of an unsorted list of
\* full length that holds a 0, a 1 and a 2
C17_Witness ==
    /\ srt.pc = "done" /\ srt.func = "functional" /\ Len(srt.input) = MaxLen
    /\ ~IsSorted(srt.input) /\ Over012(srt.input)
    /\ \A v \in 0..2 : Occurrences(srt.input, v) >= 1
    /\ srt.result = NewRef /\ IsSorted(srt.heap[NewRef])

\* C18: for every non-empty list with an element outside {0, 1, 2},
\* sort_012_counting and sort_012_inplace raise ValueError, and
\* sort_012_inplace raises before any swap, leaving the list as it was.
C18_InvalidInputRaises ==
    (srt.pc = "done" /\ srt.input # <<>> /\ ~Over012(srt.input)
       /\ srt.func \in {"counting", "inplace"})
      => /\ srt.exc = "ValueError"
         /\ srt.iters = 0
         /\ srt.heap[ArgRef] = srt.input
         /\ srt.result = None

\* sort_012_inplace has raised on a list that starts with a 2 and a 0, which
\* the loop would have swapped, and holds an invalid element later
C18_Witness ==
    /\ srt.pc = "done" /\ srt.func = "inplace" /\ srt.exc = "ValueError"
    /\ Len(srt.input) >= 3 /\ srt.input[1] = 2 /\ srt.input[2] = 0
    /\ srt.input[Len(srt.input)] = -1

\* C19: for every list of two or more digits validate_solution(input,
\* rearrange_digits(input)) is True, the digits of the two numbers being
\* exactly the input digits; for lists of length 0 or 1 the result is
\* [-1, -1].
C19_ResultUsesEveryDigit ==
    /\ (rd.pc = "validated" /\ Len(rd.input) >= 2)
         => /\ rd.valid
            /\ SortedDigits(Str(rd.result[1]) \o Str(rd.result[2]), 0)
                 = SortedDigits(rd.input, 0)
    /\ (rd.pc \in {"returned", "validated"} /\ Len(rd.input) <= 1)
         => rd.result = Invalid

\* C20 as stated: the sum of the two numbers is the maximum of a + b over
\* all splits of the digits into two non-empty groups.
C20_SumIsMaxOverAllSplits ==
    (rd.pc \in {"returned", "validated"} /\ Len(rd.input) >= 2)
      => rd.result[1] + rd.result[2] = Max(Sums(rd.input, FALSE))

\* C20 amended: the sum of the two numbers is the maximum of a + b over the
\* splits of the digits into two groups whose sizes differ by at most one.
C20_SumIsMaxOverBalancedSplits ==
    (rd.pc \in {"returned", "validated"} /\ Len(rd.input) >= 2)
      => /\ rd.exc = "none"
         /\ rd.result[1] + rd.result[2] = Max(Sums(rd.input, TRUE))

\* the call has returned for an unsorted list of full length whose digits
\* are all different
C20_Witness ==
    /\ rd.pc = "returned" /\ Len(rd.input) = MaxDigits
    /\ \A i, j \in 1..Len(rd.input) : rd.input[i] = rd.input[j] => i = j
    /\ rd.input[1] < rd.input[2]
    /\ rd.result[1] > rd.result[2] /\ rd.result[2] >= 10

\* the abstract recency list: of the keys ever set (the domain of ls), the
\* min(cap, n) whose last touch in tc is the most recent
AbsPresent(cap, ls, tc) ==
    LET n == Cardinality(DOMAIN ls)
        m == IF cap < n THEN cap ELSE n
    IN {k \in DOMAIN ls : Cardinality({j \in DOMAIN ls : tc[j] > tc[k]}) < m}

\* what get(key) returns on the abstract recency list
AbsGet(cap, ls, tc, key) ==
    IF key \in AbsPresent(cap, ls, tc) THEN ls[key] ELSE NotFound

\* C23: the cache refines an abstract recency list: after any sequence of
\* get and set calls on a cache of capacity C the keys present are exactly
\* the min(C, n) most recently touched distinct keys (n = number of distinct
\* keys ever set, a touch is a set or a successful get), each mapped to the
\* value of its last set, and every get returns what the abstract list
\* returns.
C23_RefinesRecencyList ==
    [][(Ready /\ now' = now + 1)
       => /\ DOMAIN cache' = AbsPresent(capacity', lastSet', touch')
          /\ \A k \in DOMAIN cache' : ValueOf(cache', nodes', k) = lastSet'[k]
          /\ last'.op = "get" =>
                ret' = AbsGet(capacity, lastSet, touch, last'.key)]_vars

\* a get of a key set earlier and evicted since, on a full cache in which
\* another get had reordered the entries
C23_Witness ==
    /\ Ready /\ last.op = "get" /\ last.key \in evicted /\ ret = NotFound
    /\ size(cache) = capacity /\ capacity >= 2
    /\ Cardinality(DOMAIN lastSet) > capacity
    /\ \E a, b \in DOMAIN cache : a < b /\ touch[a] > touch[b]

\* C25: along any sequence of get and set calls on a cache of capacity
\* C >= 1, size() never decreases and always equals min(C, number of
\* distinct keys passed to set so far); setting n <= C distinct keys evicts
\* nothing and leaves all n retrievable with size() = n.
C25_SizeIsMinOfCapacityAndKeysSet ==
    [][(Ready /\ now' = now + 1)
       => LET n == Cardinality(DOMAIN lastSet')
          IN /\ size(cache') >= size(cache)
             /\ size(cache') = (IF capacity' < n THEN capacity' ELSE n)
             /\ n <= capacity' =>
                   /\ victim' = None /\ evicted' = {}
                   /\ size(cache') = n
                   /\ \A k \in DOMAIN lastSet' :
                         get(cache', nodes', k).ret = lastSet'[k]]_vars

\* as many distinct keys as the capacity were set, then one more
C25_Witness ==
    /\ Ready /\ last.op = "set" /\ capacity = MaxCap
    /\ Cardinality(DOMAIN lastSet) = capacity + 1
    /\ size(cache) = capacity /\ victim # None

\* C26: no get, set or size call changes the capacity: in every state
\* reachable from a successful construction through those three operations
\* the capacity equals the constructor argument and is >= 1, so the
\* zero-capacity branch of set is never taken.
C26_CapacityIsFrozen ==
    [][/\ (last'.op = "init" /\ status' = "ready") => capacity' = last'.value
       /\ Ready => (capacity' = capacity /\ capacity >= 1 /\ capacity' # 0)
       /\ (Ready /\ Called("set")) => (capacity # 0 /\ exc' = "none"
                                        /\ last'.key \in DOMAIN cache')]_vars

\* get, set and size have all been called on a cache of the largest capacity
C26_Witness ==
    /\ Ready /\ capacity = MaxCap /\ last.op = "size" /\ ret = MaxCap
    /\ Cardinality(DOMAIN lastSet) = MaxCap
    /\ \E k \in DOMAIN cache : touch[k] = MaxCap + 1

\* C27: after every completed get or set call the chain is a well-formed
\* doubly linked list: head.prev and tail.next are None, following next from
\* head reaches tail in exactly size() + 1 steps without a cycle, for every
\* adjacent pair a, b on that walk a.next is b and b.prev is a; the two
\* sentinels are never removed and never appear in the mapping.
C27_ChainWellFormed ==
    (Ready /\ last.op \in {"init", "get", "set"}) =>
      LET ids == ChainIds(nodes)
      IN /\ {head, tail} \subseteq DOMAIN nodes
         /\ WellLinked(nodes)
         /\ Len(ids) = size(cache)
         /\ \A i, j \in 1..Len(ids) : ids[i] = ids[j] => i = j
         /\ \A i \in 1..Len(ids) : ids[i] \notin {head, tail, None}
         /\ head \notin Range(cache) /\ tail \notin Range(cache)

\* a get moved the last of three entries to the head of the chain
C27_Witness ==
    /\ Ready /\ last.op = "get" /\ hit /\ size(cache) = 3
    /\ nodes[head].next = cache[last.key]
    /\ \E k \in DOMAIN cache : touch[k] < touch[last.key] /\ nodes[cache[k]].next = tail
    /\ victim = None /\ evicted # {}

\* the three regions around low, mid and high in the list being sorted
ThreeRegions(l, low, mid, high, input) ==
    /\ \A i \in 0..(low - 1) : At(l, i) = 0
    /\ \A i \in low..(mid - 1) : At(l, i) = 1
    /\ \A i \in (high + 1)..(Len(l) - 1) : At(l, i) = 2
    /\ 0 <= low /\ low <= mid /\ mid <= high + 1 /\ high + 1 <= Len(l)
    /\ Len(l) = Len(input)
    /\ \A v \in 0..2 : Occurrences(l, v) = Occurrences(input, v)

Alone(t) == \A u \in Threads \ {t} : th[u] \in Calls

\* the statements of the eviction (lines 129-130 and the methods they call)
Evicting(l) ==
    \/ l.pc \in {"s129", "p83", "p84", "p86", "s130"}
    \/ l.pc \in {"r69", "r70", "r71", "r73"} /\ l.stack # <<>> /\ l.stack[1] = "p86"

\* the statements of the insertion (lines 133-134 and _add_node), and the end
Inserting(l) ==
    /\ l.new_node # None
    /\ l.pc \in {"s133", "s134", "a61", "a62", "a63", "a64", "a65", "done"}

\* C24: within a set of an absent key on a full cache, the eviction
\* (detaching the LRU node from the chain and deleting its key from the
\* mapping) is completed before the new entry is put in the mapping and
\* attached to the chain, so at every intermediate step of set the mapping
\* holds at most capacity keys and the chain at most capacity real nodes.
C24_EvictionBeforeInsertion ==
    \A t \in Threads :
      (Alone(t) /\ th[t].op = "set") =>
        LET l == th[t]
            chain == SeqToSet(ChainIds(nodes))
        IN /\ size(cache) <= capacity
           /\ Cardinality(chain) <= capacity
           /\ Len(ChainIds(nodes)) <= capacity
           /\ Evicting(l) => (l.key \notin DOMAIN cache /\ l.new_node \notin chain)
           /\ (Inserting(l) /\ l.tl # None) =>
                 /\ l.tl \notin chain
                 /\ l.tl \notin Range(cache)
                 /\ \A k \in DOMAIN cache : k # l.key => nodes[cache[k]].key # nodes[l.tl].key
                 /\ nodes[l.tl].key \notin DOMAIN cache

\* the caller is about to attach the new node, after an eviction from a full
\* cache of the largest capacity: the key is in the mapping, the node not yet
\* in the chain
C24_Witness ==
    \E t \in Threads :
      /\ Alone(t) /\ th[t].op = "set" /\ th[t].pc = "a65" /\ th[t].tl # None
      /\ capacity = ThCap
      /\ th[t].key \in DOMAIN cache
      /\ Len(ChainIds(nodes)) = capacity - 1
      /\ size(cache) = capacity

C29_ActiveNumbersStayOut ==
    [][tm.pc \in {"run", "asked"}
       => /\ Active(tm.log) \cap get_potential_telemarketers(tm.d) = {}
          /\ Active(tm.log) \cap get_potential_telemarketers(tm'.d) = {}
          /\ Active(tm.log) \subseteq Active(tm'.log)
          /\ (get_potential_telemarketers(tm'.d) \ get_potential_telemarketers(tm.d))
                \cap Active(tm'.log) = {}
          /\ tm'.pc = "asked" => tm'.result \cap Active(tm'.log) = {}]_vars

\* a number that made the first call later received a text and is not
\* reported; another number is
C29_Witness ==
    /\ tm.pc = "asked" /\ Len(tm.log) = MaxRecords
    /\ tm.log[1].kind = "call" /\ tm.log[1].a # tm.log[1].b
    /\ \E i \in 2..Len(tm.log) : tm.log[i].kind = "text" /\ tm.log[i].b = tm.log[1].a
    /\ tm.log[1].a \notin tm.result
    /\ tm.result # {}

\* C30: for every integer n >= 0 sqrt_binary_search(n) terminates and
\* returns the floor of the square root, the unique r >= 0 with
\* r*r <= n < (r+1)*(r+1); for every n < 0 it raises ValueError.
\* Termination: every iteration that does not return shrinks right - left,
\* which stays >= 0, so the loop runs at most n times.
C30_FloorSqrt ==
    [][sq.pc \in {"call", "loop"}
       => /\ sq'.pc = "done" =>
                /\ sq.number >= 0
                /\ sq'.exc = "none"
                /\ IsFloorSqrt(sq.number, sq'.result)
                /\ \A r \in 0..sq.number : IsFloorSqrt(sq.number, r) => r = sq'.result
          /\ sq'.pc = "raised" => (sq.number < 0 /\ sq'.exc = "ValueError")
          /\ (sq.pc = "call" /\ sq.number < 0) => sq'.pc = "raised"
          /\ sq'.pc = "loop" =>
                /\ sq'.left <= sq'.right
                /\ sq.pc = "loop" => sq'.right - sq'.left < sq.right - sq.left
          /\ sq.number >= 0 => sq'.iters <= sq.number]_vars

\* the search returned the root of a number that is not a perfect square
\* after moving both bounds
C30_Witness ==
    /\ sq.pc = "done" /\ sq.number > 100 /\ sq.iters >= 3
    /\ sq.left > 0 /\ sq.right < sq.number
    /\ sq.result * sq.result < sq.number

====
